---- MODULE Spec2Model ----
(***************************************************************************)
(* Model of the integer search server: tcp_server.py (TCPServer: the       *)
(* accept loop and one handle_client thread per connection) and            *)
(* big_int_search.py (SetSearch: decode_user_input, load_data and the two  *)
(* search methods over the class-level data_store).                        *)
(*                                                                         *)
(* Text is modelled as a sequence of one-character strings.  A response is *)
(* the sequence of the pieces of its literal, cut at the newline, with the *)
(* newline a piece of its own.  Each thread is cut into steps at its       *)
(* accesses to what other threads and the file system share: the reference *)
(* file and SetSearch.data_store.                                          *)
(***************************************************************************)
EXTENDS Integers, Sequences, FiniteSets, TLC

\* Number of connections the accept loop hands to handler threads.
NumSessions == 2

Sessions == 1..NumSessions

\* ------------------------------------------------------------------ text

\* The byte \x00.
NUL == "\\x00"

\* The characters str.strip() removes, among those the inputs use.
Whitespace == {" ", "\n"}

Digits == <<"0", "1", "2", "3", "4", "5", "6", "7", "8", "9">>

UpperCase == <<"A", "B", "C", "D", "E", "F", "G", "H", "I", "J", "K", "L", "M",
               "N", "O", "P", "Q", "R", "S", "T", "U", "V", "W", "X", "Y", "Z">>

LowerCase == <<"a", "b", "c", "d", "e", "f", "g", "h", "i", "j", "k", "l", "m",
               "n", "o", "p", "q", "r", "s", "t", "u", "v", "w", "x", "y", "z">>

\* str.lower(), character by character.
Lower(s) ==
    [i \in 1..Len(s) |->
        IF \E k \in 1..26 : UpperCase[k] = s[i]
        THEN LowerCase[CHOOSE k \in 1..26 : UpperCase[k] = s[i]]
        ELSE s[i]]

RECURSIVE LStrip(_)
LStrip(s) ==
    IF s # <<>> /\ Head(s) \in Whitespace THEN LStrip(Tail(s)) ELSE s

RECURSIVE RStrip(_)
RStrip(s) ==
    IF s # <<>> /\ s[Len(s)] \in Whitespace
    THEN RStrip(SubSeq(s, 1, Len(s) - 1))
    ELSE s

\* str.strip(): leading and trailing whitespace removed, nothing else.
Strip(s) == RStrip(LStrip(s))

\* str.split(sep): the fields between the separators, empty fields kept.
RECURSIVE Split(_, _)
Split(s, sep) ==
    IF \E i \in 1..Len(s) : s[i] = sep
    THEN LET i == CHOOSE j \in 1..Len(s) :
                     s[j] = sep /\ \A k \in 1..(j - 1) : s[k] # sep
         IN  <<SubSeq(s, 1, i - 1)>> \o Split(SubSeq(s, i + 1, Len(s)), sep)
    ELSE <<s>>

\* str.replace(c, ""): every occurrence of c removed.
RECURSIVE Remove(_, _)
Remove(s, c) ==
    IF s = <<>> THEN <<>>
    ELSE IF Head(s) = c THEN Remove(Tail(s), c)
    ELSE <<Head(s)>> \o Remove(Tail(s), c)

IsDigit(c) == \E k \in 1..10 : Digits[k] = c

DigitValue(c) == (CHOOSE k \in 1..10 : Digits[k] = c) - 1

RECURSIVE DecimalValue(_)
DecimalValue(s) ==
    IF s = <<>> THEN 0
    ELSE 10 * DecimalValue(SubSeq(s, 1, Len(s) - 1)) + DigitValue(s[Len(s)])

\* int(s) raises ValueError: after int's own whitespace trim the text is empty
\* or holds a character that is no digit (the inputs use no sign or underscore).
IntFails(s) ==
    \/ Strip(s) = <<>>
    \/ \E i \in 1..Len(Strip(s)) : ~IsDigit(Strip(s)[i])

\* int(s), arbitrary precision.
int(s) == DecimalValue(Strip(s))

\* ------------------------------------------------------- big_int_search.py

\* Optional[Set[int]]: None, or Some(S) for a set S.
None == <<>>

Some(S) == <<S>>

\* decode_user_input raises ValueError: the field count is not two, or the
\* first field is no integer.
decode_raises(user_input) ==
    \/ Len(Split(user_input, ",")) # 2
    \/ IntFails(Split(user_input, ",")[1])

\* decode_user_input: the first field as an integer, the second stripped.
decode_user_input(user_input) ==
    [query_input |-> int(Split(user_input, ",")[1]),
     reread_mode |-> Strip(Split(user_input, ",")[2])]

\* The non-blank lines of a file: "for line in file if line.strip()".
NonBlank(f) == {i \in 1..Len(f.lines) : Strip(f.lines[i]) # <<>>}

\* line.strip().replace(";", ""), the text handed to int.
LineText(line) == Remove(Strip(line), ";")

\* What load_data raises, "" when it returns.
load_raises(f) ==
    IF ~f.exists THEN "FileNotFoundError"
    ELSE IF \E i \in NonBlank(f) : IntFails(LineText(f.lines[i]))
    THEN "ValueError"
    ELSE ""

\* load_data: the set of the integers of the non-blank lines.
load_data(f) == {int(LineText(f.lines[i])) : i \in NonBlank(f)}

\* A store that merges the new set into the old one instead of replacing it.
PublishUnion(old, new) == IF old = None THEN Some(new) ELSE Some(old[1] \cup new)

\* A store that keeps None when the load found no integer.
PublishNonEmpty(old, new) == IF new = {} THEN None ELSE Some(new)

\* "SetSearch.data_store = self.load_data()": the new set replaces the old.
Publish(old, new) == Some(new)

\* "query_input in SetSearch.data_store".
Contains(store, query_input) == query_input \in store[1]

\* The truth value of data_store: None and the empty set are false.
Truthy(store) == store # None /\ store[1] # {}

ResponseOn(found) ==
    IF found
    THEN <<"STRING EXISTS", "\n", " READ_ON_QUERY=True">>
    ELSE <<"STRING NOT FOUND", "\n", " READ_ON_QUERY=True">>

\* The reread-off texts with the two status lines exchanged.
ResponseOffSwapped(found) ==
    IF found
    THEN <<"STRING NOT FOUND", "\n", " READ_ON_QUERY=False">>
    ELSE <<"STRING EXISTS", "\n", " READ_ON_QUERY=False">>

\* The reread-off texts carrying the reread-on flag.
ResponseOffFlagOn(found) ==
    IF found
    THEN <<"STRING EXISTS", "\n", " READ_ON_QUERY=True">>
    ELSE <<"STRING NOT FOUND", "\n", " READ_ON_QUERY=True">>

ResponseOff(found) ==
    IF found
    THEN <<"STRING EXISTS", "\n", " READ_ON_QUERY=False">>
    ELSE <<"STRING NOT FOUND", "\n", " READ_ON_QUERY=False">>

\* ------------------------------------------------------------ tcp_server.py

\* The unpacking of data.decode().split(",") into two names raises ValueError.
unpack_raises(data) == Len(Split(data, ",")) # 2

\* re_read_mode.lower() == "true"
IsRereadOn(data) ==
    Lower(decode_user_input(data).reread_mode) = <<"t", "r", "u", "e">>

TypeErrorResponse ==
    <<"Please switch to READ_ON_QUERY=True, no data found in memory">>

ValueErrorResponse == <<"The search input must be a number or integer">>

\* ------------------------------------------------------------------ inputs

\* The request payloads a client sends.
Payloads ==
    { <<"1", "2", ",", " ", "T", "R", "U", "E", " ">>,
      <<"1", ",", " ", "o", "n">>,
      <<" ", "2", " ", ",", "o", "f", "f">>,
      <<"1", ",", "T", "r", "u", "e", NUL>>,
      <<"a", ",", "T", "r", "u", "e">>,
      <<"1", ",", "2", ",", "3">> }

Missing == [exists |-> FALSE, lines |-> <<>>]

File(lines) == [exists |-> TRUE, lines |-> lines]

\* The states of the reference file: absent, empty, and with lines.
Files ==
    { Missing,
      File(<<>>),
      File(<< <<"1", ";", "\n">>, <<"\n">> >>),
      File(<< <<" ", "1", "2", "\n">> >>),
      File(<< <<"1", "\n">>, <<"x", "\n">> >>) }

\* ------------------------------------------------------------------- state

VARIABLES
    accepting,    \* start's accept loop is running
    file,         \* the reference file on disk
    data_store,   \* SetSearch.data_store
    published,    \* the file state read by the load data_store came from
    pc,           \* where each handler thread is
    data,         \* handle_client's data: the payload being served
    query_input,  \* the search methods' query_input
    loaded,       \* the value load_data returned to the thread
    source,       \* the file state that load read
    first,        \* what the first read of data_store in reread-off saw
    out           \* what was sent on the connection after the last recv

vars == <<accepting, file, data_store, published, pc, data, query_input,
          loaded, source, first, out>>

Init ==
    /\ accepting = TRUE
    /\ file \in Files
    /\ data_store = None
    /\ published = None
    /\ pc = [s \in Sessions |-> "idle"]
    /\ data = [s \in Sessions |-> <<>>]
    /\ query_input = [s \in Sessions |-> 0]
    /\ loaded = [s \in Sessions |-> {}]
    /\ source = [s \in Sessions |-> None]
    /\ first = [s \in Sessions |-> None]
    /\ out = [s \in Sessions |-> <<>>]

\* The file changes on disk.
WriteFile(f) ==
    /\ f # file
    /\ file' = f
    /\ UNCHANGED <<accepting, data_store, published, pc, data, query_input,
                   loaded, source, first, out>>

\* An accept loop that goes on after an error on the listening socket.
AcceptAfterError(s) ==
    /\ pc[s] = "idle"
    /\ \A t \in Sessions : t < s => pc[t] # "idle"
    /\ pc' = [pc EXCEPT ![s] = "setup"]
    /\ UNCHANGED <<accepting, file, data_store, published, data, query_input,
                   loaded, source, first, out>>

\* An accept loop that serves each connection itself, to its end, before it
\* accepts the next one.
AcceptInline(s) ==
    /\ accepting
    /\ pc[s] = "idle"
    /\ \A t \in Sessions : t < s => pc[t] = "closed"
    /\ pc' = [pc EXCEPT ![s] = "setup"]
    /\ UNCHANGED <<accepting, file, data_store, published, data, query_input,
                   loaded, source, first, out>>

\* start: accept returns the next connection and a handler thread starts on
\* it, at the SSL setup of handle_client.
Accept(s) ==
    /\ accepting
    /\ pc[s] = "idle"
    /\ \A t \in Sessions : t < s => pc[t] # "idle"
    /\ pc' = [pc EXCEPT ![s] = "setup"]
    /\ UNCHANGED <<accepting, file, data_store, published, data, query_input,
                   loaded, source, first, out>>

\* start: accept raises socket.error and the loop breaks.
ListenerError ==
    /\ accepting
    /\ accepting' = FALSE
    /\ UNCHANGED <<file, data_store, published, pc, data, query_input, loaded,
                   source, first, out>>

\* handle_client: SSL is disabled, or it is enabled and wrap_socket returns;
\* the thread goes on to recv.
SetupDone(s) ==
    /\ pc[s] = "setup"
    /\ pc' = [pc EXCEPT ![s] = "recv"]
    /\ UNCHANGED <<accepting, file, data_store, published, data, query_input,
                   loaded, source, first, out>>

\* A handshake failure that reaches the accept loop and breaks it.
HandshakeFailsStopsLoop(s) ==
    /\ pc[s] = "setup"
    /\ pc' = [pc EXCEPT ![s] = "closed"]
    /\ accepting' = FALSE
    /\ UNCHANGED <<file, data_store, published, data, query_input, loaded,
                   source, first, out>>

\* handle_client: SSL is enabled and its setup raises ssl.SSLError; the
\* handler closes the socket and returns.
HandshakeFails(s) ==
    /\ pc[s] = "setup"
    /\ pc' = [pc EXCEPT ![s] = "closed"]
    /\ UNCHANGED <<accepting, file, data_store, published, data, query_input,
                   loaded, source, first, out>>

\* handle_client: SSL is enabled and its setup raises an exception that is no
\* ssl.SSLError, as load_cert_chain does with FileNotFoundError when the
\* certificate file is missing: no handler takes it and the thread ends
\* without a call of client_socket.close().
SetupRaises(s) ==
    /\ pc[s] = "setup"
    /\ pc' = [pc EXCEPT ![s] = "unclosed"]
    /\ UNCHANGED <<accepting, file, data_store, published, data, query_input,
                   loaded, source, first, out>>

\* recv returns no bytes: break, and the finally clause closes the socket.
RecvEmpty(s) ==
    /\ pc[s] = "recv"
    /\ data' = [data EXCEPT ![s] = <<>>]
    /\ out' = [out EXCEPT ![s] = <<>>]
    /\ pc' = [pc EXCEPT ![s] = "closed"]
    /\ UNCHANGED <<accepting, file, data_store, published, query_input,
                   loaded, source, first>>

\* A handler that picks the search method from the unpacked mode field before
\* it decodes: a payload with two fields and the mode "true" is loaded and
\* stored before its first field is found to be no integer.
RecvMalformedAfterLoad(s, p) ==
    /\ pc[s] = "recv"
    /\ unpack_raises(p) \/ decode_raises(p)
    /\ data' = [data EXCEPT ![s] = p]
    /\ out' = [out EXCEPT ![s] = <<ValueErrorResponse>>]
    /\ pc' = [pc EXCEPT ![s] = "closed"]
    /\ IF /\ ~unpack_raises(p)
          /\ Lower(Strip(Split(p, ",")[2])) = <<"t", "r", "u", "e">>
          /\ load_raises(file) = ""
       THEN /\ data_store' = Some(load_data(file))
            /\ published' = Some(file)
       ELSE UNCHANGED <<data_store, published>>
    /\ UNCHANGED <<accepting, file, query_input, loaded, source, first>>

\* recv returns a payload that the unpacking or decode_user_input rejects:
\* the ValueError handler sends its text and the finally clause closes.
RecvMalformed(s, p) ==
    /\ pc[s] = "recv"
    /\ unpack_raises(p) \/ decode_raises(p)
    /\ data' = [data EXCEPT ![s] = p]
    /\ out' = [out EXCEPT ![s] = <<ValueErrorResponse>>]
    /\ pc' = [pc EXCEPT ![s] = "closed"]
    /\ UNCHANGED <<accepting, file, data_store, published, query_input,
                   loaded, source, first>>

\* recv returns a payload that decodes: the mode field picks the search method.
RecvQuery(s, p) ==
    /\ pc[s] = "recv"
    /\ ~unpack_raises(p) /\ ~decode_raises(p)
    /\ data' = [data EXCEPT ![s] = p]
    /\ out' = [out EXCEPT ![s] = <<>>]
    /\ pc' = [pc EXCEPT ![s] = IF IsRereadOn(p) THEN "on_load" ELSE "off_read"]
    /\ UNCHANGED <<accepting, file, data_store, published, query_input,
                   loaded, source, first>>

\* search_data_reread_on: decode, then load_data returns a set.
OnLoad(s) ==
    /\ pc[s] = "on_load"
    /\ load_raises(file) = ""
    /\ query_input' =
           [query_input EXCEPT ![s] = decode_user_input(data[s]).query_input]
    /\ loaded' = [loaded EXCEPT ![s] = load_data(file)]
    /\ source' = [source EXCEPT ![s] = Some(file)]
    /\ data' = [data EXCEPT ![s] = <<>>]
    /\ pc' = [pc EXCEPT ![s] = "on_store"]
    /\ UNCHANGED <<accepting, file, data_store, published, first, out>>

\* An uncaught FileNotFoundError that ends the accept loop with the thread.
OnLoadFileNotFoundStopsLoop(s) ==
    /\ pc[s] = "on_load"
    /\ load_raises(file) = "FileNotFoundError"
    /\ pc' = [pc EXCEPT ![s] = "closed"]
    /\ accepting' = FALSE
    /\ UNCHANGED <<file, data_store, published, data, query_input, loaded,
                   source, first, out>>

\* load_data raises FileNotFoundError: no except clause of handle_client
\* takes it, the finally clause closes the socket and the thread ends.
OnLoadFileNotFound(s) ==
    /\ pc[s] = "on_load"
    /\ load_raises(file) = "FileNotFoundError"
    /\ pc' = [pc EXCEPT ![s] = "closed"]
    /\ UNCHANGED <<accepting, file, data_store, published, data, query_input,
                   loaded, source, first, out>>

\* A reread-on method that empties the handle before it loads, so that a
\* failed load leaves None behind.
OnLoadValueErrorClears(s) ==
    /\ pc[s] = "on_load"
    /\ load_raises(file) = "ValueError"
    /\ data_store' = None
    /\ out' = [out EXCEPT ![s] = <<ValueErrorResponse>>]
    /\ pc' = [pc EXCEPT ![s] = "closed"]
    /\ UNCHANGED <<accepting, file, published, data, query_input, loaded,
                   source, first>>

\* load_data raises ValueError: the ValueError handler sends its text and the
\* finally clause closes the socket.
OnLoadValueError(s) ==
    /\ pc[s] = "on_load"
    /\ load_raises(file) = "ValueError"
    /\ out' = [out EXCEPT ![s] = <<ValueErrorResponse>>]
    /\ pc' = [pc EXCEPT ![s] = "closed"]
    /\ UNCHANGED <<accepting, file, data_store, published, data, query_input,
                   loaded, source, first>>

\* search_data_reread_on: the assignment to SetSearch.data_store.
OnStore(s) ==
    /\ pc[s] = "on_store"
    /\ data_store' = Publish(data_store, loaded[s])
    /\ published' = source[s]
    /\ pc' = [pc EXCEPT ![s] = "on_test"]
    /\ UNCHANGED <<accepting, file, data, query_input, loaded, source, first,
                   out>>

\* search_data_reread_on: the membership test reads SetSearch.data_store
\* again; handle_client sends the response and goes back to recv.
OnTest(s) ==
    /\ pc[s] = "on_test"
    /\ out' = [out EXCEPT
                 ![s] = <<ResponseOn(Contains(data_store, query_input[s]))>>]
    /\ query_input' = [query_input EXCEPT ![s] = 0]
    /\ loaded' = [loaded EXCEPT ![s] = {}]
    /\ source' = [source EXCEPT ![s] = None]
    /\ pc' = [pc EXCEPT ![s] = "recv"]
    /\ UNCHANGED <<accepting, file, data_store, published, data, first>>

\* search_data_reread_off: decode, then "SetSearch.data_store and ..." reads a
\* true value and goes on to the membership test.
OffReadTruthy(s) ==
    /\ pc[s] = "off_read"
    /\ Truthy(data_store)
    /\ query_input' =
           [query_input EXCEPT ![s] = decode_user_input(data[s]).query_input]
    /\ first' = [first EXCEPT ![s] = data_store]
    /\ data' = [data EXCEPT ![s] = <<>>]
    /\ pc' = [pc EXCEPT ![s] = "off_test"]
    /\ UNCHANGED <<accepting, file, data_store, published, loaded, source,
                   out>>

\* A reread-off method that loads the file itself when it finds nothing in
\* the handle.
OffReadFalsyLoads(s) ==
    /\ pc[s] = "off_read"
    /\ ~Truthy(data_store)
    /\ data_store' =
           IF load_raises(file) = "" THEN Some(load_data(file)) ELSE data_store
    /\ published' = IF load_raises(file) = "" THEN Some(file) ELSE published
    /\ out' = [out EXCEPT ![s] = <<ResponseOff(FALSE)>>]
    /\ data' = [data EXCEPT ![s] = <<>>]
    /\ pc' = [pc EXCEPT ![s] = "recv"]
    /\ UNCHANGED <<accepting, file, query_input, loaded, source, first>>

\* search_data_reread_off: "SetSearch.data_store and ..." reads None or the
\* empty set and the membership test is not evaluated; handle_client sends
\* the response and goes back to recv.
OffReadFalsy(s) ==
    /\ pc[s] = "off_read"
    /\ ~Truthy(data_store)
    /\ out' = [out EXCEPT ![s] = <<ResponseOff(FALSE)>>]
    /\ data' = [data EXCEPT ![s] = <<>>]
    /\ pc' = [pc EXCEPT ![s] = "recv"]
    /\ UNCHANGED <<accepting, file, data_store, published, query_input,
                   loaded, source, first>>

\* search_data_reread_off: the membership test reads SetSearch.data_store
\* again; handle_client sends the response and goes back to recv.
OffTest(s) ==
    /\ pc[s] = "off_test"
    /\ out' = [out EXCEPT
                 ![s] = <<ResponseOff(Contains(data_store, query_input[s]))>>]
    /\ query_input' = [query_input EXCEPT ![s] = 0]
    /\ first' = [first EXCEPT ![s] = None]
    /\ pc' = [pc EXCEPT ![s] = "recv"]
    /\ UNCHANGED <<accepting, file, data_store, published, data, loaded,
                   source>>

Next ==
    \/ \E f \in Files : WriteFile(f)
    \/ ListenerError
    \/ \E s \in Sessions :
          \/ Accept(s)
          \/ SetupDone(s)
          \/ HandshakeFails(s)
          \/ SetupRaises(s)
          \/ RecvEmpty(s)
          \/ \E p \in Payloads : RecvMalformed(s, p)
          \/ \E p \in Payloads : RecvQuery(s, p)
          \/ OnLoad(s)
          \/ OnLoadFileNotFound(s)
          \/ OnLoadValueError(s)
          \/ OnStore(s)
          \/ OnTest(s)
          \/ OffReadTruthy(s)
          \/ OffReadFalsy(s)
          \/ OffTest(s)

Spec == Init /\ [][Next]_vars

\* ------------------------------------------------------------------ claims

\* A lookup response says the integer exists.
Found(r) == r[1] = "STRING EXISTS"

StatusTexts == {"STRING EXISTS", "STRING NOT FOUND"}

\* The thread is inside one of the two search methods.
InSearch(s) ==
    pc[s] \in {"on_load", "on_store", "on_test", "off_read", "off_test"}

\* n is the integer of a whole non-blank line of file state f.
WholeLine(n, f) ==
    \E i \in NonBlank(f) :
        ~IntFails(LineText(f.lines[i])) /\ int(LineText(f.lines[i])) = n

\* The mode field of a payload, trimmed and lower-cased.
ModeField(p) == Lower(Strip(Split(p, ",")[2]))

\* C1: a reread-on query answers with the membership of its integer in the
\* set its own load returned, whatever other queries publish meanwhile.
C1_AnswersOwnLoad ==
    [][\A s \in Sessions :
          (pc[s] = "on_test" /\ pc'[s] = "recv")
              => (Found(out'[s][1]) <=> query_input[s] \in loaded[s])]_vars

\* C2: a reread-off query that found a set in the handle answers with the
\* membership of its integer in the set its first read saw or in the set the
\* handle holds when it answers, never with an answer neither set gives.
C2_OldOrNew ==
    [][\A s \in Sessions :
          /\ (pc[s] = "off_test" /\ pc'[s] = "recv")
                => \E v \in {first[s], data_store} :
                       Found(out'[s][1]) <=> query_input[s] \in v[1]
          /\ (pc[s] = "off_read" /\ pc'[s] = "recv" /\ data_store # None)
                => (Found(out'[s][1])
                      <=> decode_user_input(data[s]).query_input \in data_store[1])
      ]_vars

\* C2 witness: a reread-off query is between its two reads of the handle and
\* a publish has replaced the set it first saw by one that answers otherwise.
C2_Witness ==
    \E s \in Sessions :
        /\ pc[s] = "off_test"
        /\ data_store # first[s]
        /\ (query_input[s] \in first[s][1]) # (query_input[s] \in data_store[1])

\* C3: the handle is uninitialized until a publish, and after it holds exactly
\* the set of one whole load: the load of the file state that the last
\* publish had read, also once every reread-on query has completed.
C3_WholeLoad ==
    /\ data_store = None <=> published = None
    /\ data_store # None =>
          /\ load_raises(published[1]) = ""
          /\ \A n \in data_store[1] : WholeLine(n, published[1])
          /\ \A i \in NonBlank(published[1]) :
                 int(LineText(published[1].lines[i])) \in data_store[1]

\* C3 witness: two reread-on queries have both published, from different file
\* states, and neither has answered yet.
C3_Witness ==
    \E s, t \in Sessions :
        /\ pc[s] = "on_test" /\ pc[t] = "on_test"
        /\ loaded[s] # loaded[t]
        /\ data_store = Some(loaded[t])

\* C4: a reread-off query that finds the handle uninitialized is answered
\* with the no-data diagnostic.
C4_NoDataDiagnostic ==
    [][\A s \in Sessions :
          (pc[s] = "off_read" /\ data_store = None /\ pc'[s] # "off_read")
              => out'[s] = <<TypeErrorResponse>>]_vars

\* C5: after a payload that does not decode, the session has sent the
\* number diagnostic and is back at recv with the connection open.
C5_DecodeErrorKeepsOpen ==
    \A s \in Sessions :
        (data[s] # <<>> /\ (unpack_raises(data[s]) \/ decode_raises(data[s])))
            => (out[s] = <<ValueErrorResponse>> /\ pc[s] = "recv")

\* C6: for every payload read exactly one response is sent before the next
\* recv or the close; after a lookup response the session is back at recv;
\* the connection closes only on an empty read or on an error.
C6_OneResponsePerRequest ==
    [][\A s \in Sessions :
          /\ (InSearch(s) /\ pc'[s] \in {"recv", "closed"})
                => Len(out'[s]) = 1
          /\ (pc[s] = "recv" /\ pc'[s] = "closed" /\ data'[s] # <<>>)
                => Len(out'[s]) = 1
          /\ (InSearch(s) /\ pc'[s] = "closed")
                => out'[s] \in {<<ValueErrorResponse>>, <<TypeErrorResponse>>}
      ]_vars

\* C7: a request is served by the reread-on method exactly when its mode
\* field, trimmed and lower-cased, is "true" or "on".
C7_ModeField ==
    \A s \in Sessions :
        pc[s] \in {"on_load", "off_read"}
            => (pc[s] = "on_load"
                  <=> ModeField(data[s]) \in {<<"t", "r", "u", "e">>, <<"o", "n">>})

\* C8: once a load has been published a reread-off query answers EXISTS
\* exactly for the integers of the whole lines of the file state the handle
\* was loaded from, and a reread-on query exactly for the integers of the
\* whole lines of the file state it loaded.
C8_WholeLineMatch ==
    [][\A s \in Sessions :
          /\ (pc[s] = "off_test" /\ pc'[s] = "recv")
                => (Found(out'[s][1]) <=> WholeLine(query_input[s], published[1]))
          /\ (pc[s] = "off_read" /\ pc'[s] = "recv" /\ published # None)
                => (Found(out'[s][1])
                      <=> WholeLine(decode_user_input(data[s]).query_input,
                                    published[1]))
          /\ (pc[s] = "on_test" /\ pc'[s] = "recv")
                => (Found(out'[s][1]) <=> WholeLine(query_input[s], source[s][1]))
      ]_vars

\* C9: a lookup response holds exactly one status text, and its flag piece
\* reads True exactly when the reread-on method answered and False exactly
\* when the reread-off method answered.
C9_FlagIsModeUsed ==
    [][\A s \in Sessions :
          (InSearch(s) /\ pc'[s] = "recv")
              => LET r == out'[s][1]
                 IN  /\ Len(out'[s]) = 1
                     /\ Cardinality({i \in DOMAIN r : r[i] \in StatusTexts}) = 1
                     /\ r[Len(r)] = " READ_ON_QUERY=True" <=> pc[s] = "on_test"
                     /\ r[Len(r)] = " READ_ON_QUERY=False"
                           <=> pc[s] \in {"off_read", "off_test"}
      ]_vars

\* C9 witness: the only session ever accepted has been answered EXISTS with
\* the flag False, from a set that only its own earlier reread-on request can
\* have published: one session, both modes.
C9_Witness ==
    \E s \in Sessions :
        /\ pc[s] = "recv"
        /\ out[s] = <<ResponseOff(TRUE)>>
        /\ \A t \in Sessions \ {s} : pc[t] = "idle"

\* C10: a lookup response that has been sent ends with a newline.
C10_EndsWithNewline ==
    \A s \in Sessions :
        (pc[s] = "recv" /\ out[s] # <<>>)
            => out[s][1][Len(out[s][1])] = "\n"

\* A payload without the NUL bytes at its end.
RECURSIVE StripNul(_)
StripNul(p) ==
    IF p # <<>> /\ p[Len(p)] = NUL THEN StripNul(SubSeq(p, 1, Len(p) - 1)) ELSE p

\* The payload in service does not decode.
Malformed(p) == unpack_raises(p) \/ decode_raises(p)

\* C11: a payload with NUL bytes at its end decodes to the pair of, and is
\* served by the same method as, the payload without them.
C11_NulPaddingIgnored ==
    \A s \in Sessions :
        pc[s] \in {"on_load", "off_read"}
            => /\ decode_user_input(data[s]) = decode_user_input(StripNul(data[s]))
               /\ pc[s] = "on_load" <=> IsRereadOn(StripNul(data[s]))

\* C12: when the load of a reread-on query fails, by a missing file or by a
\* line that is no integer, the session sends one diagnostic response.
C12_LoaderFailureAnswered ==
    [][\A s \in Sessions :
          (pc[s] = "on_load" /\ pc'[s] # "on_load" /\ load_raises(file) # "")
              => /\ Len(out'[s]) = 1
                 /\ out'[s][1][1] \notin StatusTexts]_vars

\* C16: a step of the reread-off method reads no file and leaves the handle
\* as it was.
C16_OffWritesNothing ==
    [][\A s \in Sessions :
          (pc[s] \in {"off_read", "off_test"} /\ pc'[s] # pc[s])
              => /\ data_store' = data_store
                 /\ published' = published
                 /\ loaded'[s] = loaded[s]
                 /\ source'[s] = source[s]]_vars

\* C16 witness: a reread-off query has been answered NOT FOUND while the
\* handle held a set.
C16_Witness ==
    \E s \in Sessions :
        /\ pc[s] = "recv"
        /\ out[s] = <<ResponseOff(FALSE)>>
        /\ data_store # None

\* C17: the handle starts uninitialized; it changes only by the store of a
\* reread-on query, which puts that query's set in place of what was there;
\* once it holds a set it is never uninitialized again.
C17_HandleLifetime ==
    /\ data_store = None
    /\ [][/\ data_store # None => data_store' # None
          /\ data_store' # data_store
                => \E s \in Sessions : pc[s] = "on_store" /\ pc'[s] = "on_test"
          /\ \A s \in Sessions :
                (pc[s] = "on_store" /\ pc'[s] = "on_test")
                    => data_store' = Some(loaded[s])]_vars

\* C17 witness: a reread-on query has stored its set in place of another set
\* that a reread-off query had read from the handle just before.
C17_Witness ==
    \E s, t \in Sessions :
        /\ pc[s] = "on_test" /\ data_store = Some(loaded[s])
        /\ pc[t] = "off_test" /\ first[t] # data_store

\* C18: with the handle holding the empty set of a loaded file a reread-off
\* query is answered NOT FOUND, and with the handle never loaded it is
\* answered otherwise: the two states are told apart.
C18_EmptyIsNotUnloaded ==
    [][\A s \in Sessions :
          (pc[s] = "off_read" /\ pc'[s] = "recv")
              => /\ data_store = Some({}) => out'[s] = <<ResponseOff(FALSE)>>
                 /\ data_store = None => out'[s] # <<ResponseOff(FALSE)>>]_vars

\* C20: a reread-on query whose load fails leaves the handle as it was, and a
\* reread-off query is answered from what the handle holds.
C20_FailedLoadKeepsHandle ==
    [][\A s \in Sessions :
          /\ (pc[s] = "on_load" /\ pc'[s] = "closed")
                => (data_store' = data_store /\ published' = published)
          /\ (pc[s] = "off_test" /\ pc'[s] = "recv")
                => (Found(out'[s][1]) <=> query_input[s] \in data_store[1])
      ]_vars

\* C20 witness: a session has ended on a failed load while the handle holds
\* the set of an earlier load.
C20_Witness ==
    \E s \in Sessions :
        /\ pc[s] = "closed"
        /\ data[s] # <<>> /\ ~Malformed(data[s])
        /\ data_store # None

\* What the model holds of session t: where its thread is, what it has read
\* and sent, and the locals of its search.
SessionState(t) ==
    <<pc[t], data[t], out[t], query_input[t], loaded[t], source[t], first[t]>>

\* C13: a step in which a session ends on an error of its request, a payload
\* that does not decode or a load that fails, leaves the accept loop running
\* if it was, leaves the handle as it was and changes nothing of any other
\* session.
C13_ErrorStaysInSession ==
    [][\A s \in Sessions :
          (\/ pc[s] = "recv" /\ pc'[s] = "closed" /\ data'[s] # <<>>
           \/ pc[s] = "on_load" /\ pc'[s] = "closed")
              => /\ accepting' = accepting
                 /\ data_store' = data_store
                 /\ \A t \in Sessions \ {s} :
                        SessionState(t)' = SessionState(t)]_vars

\* C13 witness: a session has ended on a missing file, without a response,
\* while another session is inside a search and the accept loop is running.
C13_Witness ==
    \E s, t \in Sessions :
        /\ pc[s] = "closed" /\ data[s] # <<>> /\ out[s] = <<>>
        /\ InSearch(t)
        /\ accepting

\* C14: while the accept loop runs and a connection is pending, accept can
\* return it and start its handler, wherever the threads of the connections
\* accepted before it are: at recv, in a load, in the SSL setup.
C14_AcceptNeverWaits ==
    (accepting /\ \E s \in Sessions : pc[s] = "idle")
        => ENABLED (\E s \in Sessions : Accept(s))

\* C14 witness: a connection has been accepted while the one accepted before
\* it was open, and both are open: one in the SSL setup, one in a load,
\* between two reads of the handle or at recv.
C14_Witness ==
    \E s, t \in Sessions :
        /\ s < t
        /\ pc[s] \in {"recv", "on_load", "on_store", "off_test"}
        /\ pc[t] = "setup"

\* C15: a step in which the SSL setup of a session fails ends that session
\* with nothing read from it and nothing sent on it, leaves the accept loop
\* running if it was, and changes nothing of the handle or of any other
\* session.
C15_HandshakeFailureIsLocal ==
    [][\A s \in Sessions :
          (pc[s] = "setup" /\ pc'[s] = "closed")
              => /\ data[s] = <<>> /\ data'[s] = <<>>
                 /\ out[s] = <<>> /\ out'[s] = <<>>
                 /\ accepting' = accepting
                 /\ data_store' = data_store
                 /\ \A t \in Sessions \ {s} :
                        SessionState(t)' = SessionState(t)]_vars

\* C15 witness: the first connection is closed with nothing read and nothing
\* sent, as the failed setup leaves it, while the thread of the second is
\* still in its own setup and the accept loop is running.
C15_Witness ==
    /\ pc[1] = "closed" /\ data[1] = <<>> /\ out[1] = <<>>
    /\ pc[2] = "setup"
    /\ accepting

\* C19: once the accept loop has ended it stays ended and no pending
\* connection is accepted any more; the loop ends only in a step of the
\* listener, never in a step of a session.
C19_ListenerErrorEndsLoop ==
    [][/\ ~accepting => ~accepting'
       /\ \A s \in Sessions : (pc[s] = "idle" /\ pc'[s] # "idle") => accepting
       /\ accepting' # accepting
             => \A s \in Sessions : SessionState(s)' = SessionState(s)]_vars

\* C19 witness: the accept loop has ended with a connection pending that is
\* never accepted, while a session accepted before is still inside a search.
C19_Witness ==
    /\ ~accepting
    /\ \E s, t \in Sessions : pc[s] = "idle" /\ InSearch(t)

\* C21: a payload that does not decode, whatever its mode field, ends the
\* session straight from recv: no search method is entered, no file is read
\* and the handle is left as it was.
C21_MalformedNeverLoads ==
    [][\A s \in Sessions :
          (pc[s] = "recv" /\ data'[s] # <<>> /\ Malformed(data'[s]))
              => /\ pc'[s] = "closed"
                 /\ data_store' = data_store
                 /\ published' = published
                 /\ loaded'[s] = loaded[s]
                 /\ source'[s] = source[s]]_vars

\* C21 witness: a session has ended on a payload of two fields whose mode
\* field selects reread-on and whose first field is no integer, while a file
\* that loads is on disk and the handle holds the set of another file state.
C21_Witness ==
    \E s \in Sessions :
        /\ pc[s] = "closed"
        /\ data[s] # <<>> /\ ~unpack_raises(data[s]) /\ decode_raises(data[s])
        /\ ModeField(data[s]) = <<"t", "r", "u", "e">>
        /\ load_raises(file) = ""
        /\ data_store # None /\ published # Some(file)

\* The handler thread of session s has ended.
Ended(s) == pc[s] \in {"closed", "unclosed"}

\* C22: a session whose handler has ended has closed its socket.
C22_EndedMeansClosed ==
    \A s \in Sessions : Ended(s) => pc[s] = "closed"

\* The part of C22 that holds: a session whose handler has ended sends
\* nothing more and stays ended.
C22_EndedStaysSilent ==
    [][\A s \in Sessions :
          Ended(s) => (out'[s] = out[s] /\ pc'[s] = pc[s])]_vars

====
